---- MODULE Spec2Model ----
(***************************************************************************)
(* The render loop of src/wasm/render.rs (start): surface sizing, the      *)
(* two-target compositor (Post), the segment scheduler driven by the       *)
(* animation-frame callback and by the keydown handler, and the resize     *)
(* handler.  All callbacks run on one thread, so each handler is one       *)
(* atomic action.  Times are in milliseconds; local and global times that  *)
(* the code divides by 1000.0 are carried as thousandths of a second.      *)
(* f32 values of the pattern parameters are carried in millionths.         *)
(***************************************************************************)
EXTENDS Integers, Sequences, FiniteSets, TLC

VARIABLES
    phase,             \* "boot" before start() is called, then "running", "error" (Err returned) or "panic"
    clock,             \* performance.now(), in ms
    win,               \* the window: [w, h: CSS px, dpr2: devicePixelRatio * 2]
    canvas,            \* canvas.width / canvas.height = the drawing buffer size
    listeners,         \* the event listeners registered on the window
    post,              \* Post.w, Post.h
    gl,                \* GL state: bound framebuffer, viewport, the two offscreen textures
    current_index,     \* usize, USIZE_MAX until the first transition
    segment_start_ms,
    stripe_params,     \* PatternParams
    overlay,           \* the label last passed to set_overlay_text
    raf_pending,       \* animation-frame requests not yet served
    trace,             \* the handler that ran in the most recent step and the calls it made, in order
    rotation,          \* history: the time of the first frame callback (-1: none yet) and the
                       \* number of time-based advances made since
    frag               \* one fragment of the coordinate pipeline: its inputs and the
                       \* coordinates computed from them for two surface resolutions

vars == <<phase, clock, win, canvas, listeners, post, gl, current_index,
          segment_start_ms, stripe_params, overlay, raf_pending, trace, rotation, frag>>

sched_vars == <<current_index, segment_start_ms, stripe_params, overlay>>
surface_vars == <<win, canvas, post, gl>>

(***************************************************************************)
(* Program constants                                                       *)
(***************************************************************************)
DURATION_MS == 20000

\* usize::MAX, the "uninitialized" sentinel; carried as the largest integer TLC holds
USIZE_MAX == 2147483647

VizNames == <<"Pulsing Circle", "Rotating Square", "Twinkling Star",
              "Radiating Spokes", "Pulsing Plus">>

(***************************************************************************)
(* Bounds of the model                                                     *)
(***************************************************************************)
MaxTicks == 3

\* the longer horizon of the rotation-only specification
MaxRotationTicks == 12

\* the clock moves in half segments, so that a frame can fall before, exactly on
\* and after the end of a segment
TickMs == DURATION_MS \div 2

MaxClock == MaxTicks * TickMs

\* the horizon of the liveness specification
MaxLiveTicks == 2
MaxLiveClock == MaxLiveTicks * TickMs
MaxRotationClock == MaxRotationTicks * TickMs

\* window sizes (CSS px) and device pixel ratios (times two: 1.0 and 1.5)
Windows == { [w |-> 800, h |-> 600, dpr2 |-> 2],
             [w |-> 601, h |-> 801, dpr2 |-> 3] }

\* keyboard events: key, code and target
Keys == {" ", "a"}
Codes == {"Space", "KeyA"}
Targets == {
    [kind |-> "none",    tag |-> "",         contenteditable |-> FALSE],
    [kind |-> "window",  tag |-> "",         contenteditable |-> FALSE],
    [kind |-> "element", tag |-> "BODY",     contenteditable |-> FALSE],
    [kind |-> "element", tag |-> "INPUT",    contenteditable |-> FALSE],
    [kind |-> "element", tag |-> "TEXTAREA", contenteditable |-> FALSE],
    [kind |-> "element", tag |-> "DIV",      contenteditable |-> TRUE] }

\* the values Math.random() returns, in thousandths, one per frand() call of a
\* randomize_params call (15 calls)
NRand == 15
RandStreams == { [i \in 1..NRand |-> 0], [i \in 1..NRand |-> 999] }

\* a wider sample of frand(): js_sys::Math::random() as f32 lies in [0, 1], the cast
\* rounding the f64 values next to 1 up to 1.0; each stream repeats one value
RandValues == {0, 149, 150, 500, 501, 916, 917, 999, 1000}
WideStreams == { [i \in 1..NRand |-> v] : v \in RandValues }

(***************************************************************************)
(* Surface Manager                                                         *)
(***************************************************************************)
\* variant: the product truncated instead of rounded
RoundPx_trunc(css, dpr2) == (css * dpr2) \div 2

\* (css * dpr).round() as u32, for css >= 0 and dpr = dpr2 / 2: round half away from zero
RoundPx(css, dpr2) == (css * dpr2 + 1) \div 2

PxSize(w) == <<RoundPx(w.w, w.dpr2), RoundPx(w.h, w.dpr2)>>

\* adjust_size: the new canvas size, the new viewport, and the calls made
adjust_size(cv, viewport, w) ==
    LET px == PxSize(w)
    IN  IF cv # px
        THEN [canvas |-> px, viewport |-> px,
              calls |-> << [op |-> "set_canvas_size", w |-> px[1], h |-> px[2]] >>]
        ELSE [canvas |-> cv, viewport |-> viewport, calls |-> << >>]

(***************************************************************************)
(* Compositor (Post)                                                       *)
(***************************************************************************)
Blank == [pass |-> "none"]

NewTex(w, h) == [w |-> w, h |-> h, content |-> Blank]

\* tex_image_2d(.., w, h, .., None): reallocates the store (contents undefined/blank),
\* or fails and leaves the texture as it was
tex_image_2d(tex, w, h, ok) == IF ok THEN NewTex(w, h) ELSE tex

\* variant: no early return when the size is the recorded one
Post_resize_always(p, g, w, h, scene_ok, mask_ok) ==
    LET p1 == [w |-> w, h |-> h]
        c1 == [op |-> "tex_image_2d", tex |-> "scene", w |-> w, h |-> h, ok |-> scene_ok]
        c2 == [op |-> "tex_image_2d", tex |-> "mask", w |-> w, h |-> h, ok |-> mask_ok]
    IN  IF ~scene_ok
        THEN [post |-> p1, gl |-> g, calls |-> <<c1>>]
        ELSE [post |-> p1,
              gl |-> [g EXCEPT !.tex_scene = tex_image_2d(@, w, h, TRUE),
                               !.tex_mask = tex_image_2d(@, w, h, mask_ok)],
              calls |-> <<c1, c2>>]

\* variant: the size is recorded only when both reallocations succeeded
Post_resize_record_last(p, g, w, h, scene_ok, mask_ok) ==
    IF p.w = w /\ p.h = h
    THEN [post |-> p, gl |-> g, calls |-> << >>]
    ELSE LET p1 == [w |-> w, h |-> h]
             c1 == [op |-> "tex_image_2d", tex |-> "scene", w |-> w, h |-> h, ok |-> scene_ok]
             c2 == [op |-> "tex_image_2d", tex |-> "mask", w |-> w, h |-> h, ok |-> mask_ok]
         IN  IF ~scene_ok
             THEN [post |-> p, gl |-> g, calls |-> <<c1>>]
             ELSE [post |-> IF mask_ok THEN p1 ELSE p,
                   gl |-> [g EXCEPT !.tex_scene = tex_image_2d(@, w, h, TRUE),
                                    !.tex_mask = tex_image_2d(@, w, h, mask_ok)],
                   calls |-> <<c1, c2>>]

\* Post::resize: the new Post size, the new GL state and the calls made
Post_resize(p, g, w, h, scene_ok, mask_ok) ==
    IF p.w = w /\ p.h = h
    THEN [post |-> p, gl |-> g, calls |-> << >>]
    ELSE LET p1 == [w |-> w, h |-> h]
             c1 == [op |-> "tex_image_2d", tex |-> "scene", w |-> w, h |-> h, ok |-> scene_ok]
             c2 == [op |-> "tex_image_2d", tex |-> "mask", w |-> w, h |-> h, ok |-> mask_ok]
         IN  IF ~scene_ok
             THEN [post |-> p1, gl |-> g, calls |-> <<c1>>]
             ELSE [post |-> p1,
                   gl |-> [g EXCEPT !.tex_scene = tex_image_2d(@, w, h, TRUE),
                                    !.tex_mask = tex_image_2d(@, w, h, mask_ok)],
                   calls |-> <<c1, c2>>]

begin_scene(p, g) == [g EXCEPT !.fb = "scene", !.viewport = <<p.w, p.h>>,
                               !.tex_scene.content = Blank]

\* variant: the scene framebuffer bound for the mask pass
begin_mask_scene_fb(p, g) == [g EXCEPT !.fb = "scene", !.viewport = <<p.w, p.h>>,
                                       !.tex_scene.content = Blank]

begin_mask(p, g) == [g EXCEPT !.fb = "mask", !.viewport = <<p.w, p.h>>,
                              !.tex_mask.content = Blank]

\* what a visualizer pass draws: a function of the visualizer, the local time, the
\* resolution uniform (the drawing buffer size) and the viewport
Drawn(pass, idx, t, res, viewport) ==
    [pass |-> pass, idx |-> idx, t |-> t, res |-> res, viewport |-> viewport]

\* a visualizer's render_mask / render_color: draws into whichever target is bound
render(g, pass, idx, t, res) ==
    LET d == Drawn(pass, idx, t, res, g.viewport)
    IN  CASE g.fb = "scene" -> [g EXCEPT !.tex_scene.content = d]
          [] g.fb = "mask"  -> [g EXCEPT !.tex_mask.content = d]
          [] OTHER          -> g

\* Post::draw binds the default framebuffer and samples both textures
Post_draw(p, g) == [g EXCEPT !.fb = "default", !.viewport = <<p.w, p.h>>]

DrawCall(p, g, time, sp) ==
    [op |-> "draw", time |-> time, sp |-> sp, res |-> <<p.w, p.h>>,
     src |-> g.tex_scene, mask |-> g.tex_mask]

(***************************************************************************)
(* Pattern parameters                                                      *)
(***************************************************************************)
DefaultParams ==
    [theta0 |-> 0, theta_speed |-> 100000, density |-> 16000000, thickness |-> 500000,
     drift_x |-> 50000, drift_y |-> 30000, mode_polka |-> FALSE,
     dot_theta0 |-> 0, dot_theta_speed |-> 80000, dot_drift_x |-> 30000,
     dot_drift_y |-> -20000, dot_density |-> 10000000, dot_rmin |-> 50000,
     dot_rmax |-> 180000, color_speed |-> 100000]

\* variant: a wider range of the stripe density
randomize_params_dense(r) ==
    LET rmin == 30000 + r[14] * 120
        rmax == rmin + 30000 + r[15] * 200
    IN  [theta0 |-> r[1] * 3142,
         theta_speed |-> 50000 + r[2] * 300,
         density |-> 8000000 + r[3] * 28000,
         thickness |-> 150000 + r[4] * 700,
         drift_x |-> (r[5] * 2 - 1000) * 150,
         drift_y |-> (r[6] * 2 - 1000) * 150,
         color_speed |-> 50000 + r[7] * 400,
         mode_polka |-> r[8] > 500,
         dot_theta0 |-> r[9] * 6283,
         dot_theta_speed |-> 20000 + r[10] * 200,
         dot_drift_x |-> (r[11] * 2 - 1000) * 200,
         dot_drift_y |-> (r[12] * 2 - 1000) * 200,
         dot_density |-> 6000000 + r[13] * 20000,
         dot_rmin |-> rmin,
         dot_rmax |-> rmax]

\* randomize_params, r[i] being the i-th value of frand() in thousandths
randomize_params(r) ==
    LET rmin == 30000 + r[14] * 120
        rmax == rmin + 30000 + r[15] * 200
    IN  [theta0 |-> r[1] * 3142,
         theta_speed |-> 50000 + r[2] * 300,
         density |-> 8000000 + r[3] * 24000,
         thickness |-> 150000 + r[4] * 700,
         drift_x |-> (r[5] * 2 - 1000) * 150,
         drift_y |-> (r[6] * 2 - 1000) * 150,
         color_speed |-> 50000 + r[7] * 400,
         mode_polka |-> r[8] > 500,
         dot_theta0 |-> r[9] * 6283,
         dot_theta_speed |-> 20000 + r[10] * 200,
         dot_drift_x |-> (r[11] * 2 - 1000) * 200,
         dot_drift_y |-> (r[12] * 2 - 1000) * 200,
         dot_density |-> 6000000 + r[13] * 20000,
         dot_rmin |-> rmin,
         dot_rmax |-> rmax]

(***************************************************************************)
(* Segment scheduler                                                       *)
(***************************************************************************)
\* variant: the position printed zero-based
Label_zero_based(n, len, name) == ToString(n - 1) \o "/" \o ToString(len) \o " " \o name

\* format!("{}/{} {}", n, len, name)
Label(n, len, name) == ToString(n) \o "/" \o ToString(len) \o " " \o name

SetOverlay(label) == [op |-> "set_overlay_text", label |-> label]
Randomized == [op |-> "randomize_params"]

\* the scheduler's state as a record, with the calls made so far
Sched == [idx |-> current_index, start |-> segment_start_ms,
          params |-> stripe_params, overlay |-> overlay, calls |-> << >>]

\* *idx + 1 on a usize (wrapping)
IncUsize(i) == IF i = USIZE_MAX THEN 0 ELSE i + 1

\* variant: the segment start is not set when the sentinel is consumed
FirstFrameInit_keepstart(s, now, len, r) ==
    IF s.idx = USIZE_MAX
    THEN LET label == Label(1, len, VizNames[1])
         IN  [idx |-> 0, start |-> s.start, params |-> randomize_params(r), overlay |-> label,
              calls |-> s.calls \o <<SetOverlay(label), Randomized>>]
    ELSE s

\* variant: the parameters are drawn again in every frame
FirstFrameInit_every_frame(s, now, len, r) ==
    IF s.idx = USIZE_MAX
    THEN LET label == Label(1, len, VizNames[1])
         IN  [idx |-> 0, start |-> now, params |-> randomize_params(r), overlay |-> label,
              calls |-> s.calls \o <<SetOverlay(label), Randomized>>]
    ELSE [s EXCEPT !.params = randomize_params(r), !.calls = @ \o <<Randomized>>]

\* frame callback, first if: the sentinel is consumed
FirstFrameInit(s, now, len, r) ==
    IF s.idx = USIZE_MAX
    THEN LET label == Label(1, len, VizNames[1])
         IN  [idx |-> 0, start |-> now, params |-> randomize_params(r), overlay |-> label,
              calls |-> s.calls \o <<SetOverlay(label), Randomized>>]
    ELSE s

\* variant: the budget compared with > instead of >=
TimeAdvance_strict(s, now, len, r) ==
    IF now - s.start > DURATION_MS
    THEN LET idx == IncUsize(s.idx) % len
             label == Label(idx + 1, len, VizNames[idx + 1])
         IN  [idx |-> idx, start |-> now, params |-> randomize_params(r), overlay |-> label,
              calls |-> s.calls \o <<SetOverlay(label), Randomized>>]
    ELSE s

\* variant: the time-based advance keeps the parameters of the previous segment
TimeAdvance_keep_params(s, now, len, r) ==
    IF now - s.start >= DURATION_MS
    THEN LET idx == IncUsize(s.idx) % len
             label == Label(idx + 1, len, VizNames[idx + 1])
         IN  [idx |-> idx, start |-> now, params |-> s.params, overlay |-> label,
              calls |-> s.calls \o <<SetOverlay(label)>>]
    ELSE s

\* variant: a late frame skips every segment whose budget has passed
TimeAdvance_catch_up(s, now, len, r) ==
    IF now - s.start >= DURATION_MS
    THEN LET idx == (IncUsize(s.idx) + ((now - s.start) \div DURATION_MS) - 1) % len
             label == Label(idx + 1, len, VizNames[idx + 1])
         IN  [idx |-> idx, start |-> now, params |-> randomize_params(r), overlay |-> label,
              calls |-> s.calls \o <<SetOverlay(label), Randomized>>]
    ELSE s

\* frame callback, second if: the time budget of the segment is used up
TimeAdvance(s, now, len, r) ==
    IF now - s.start >= DURATION_MS
    THEN LET idx == IncUsize(s.idx) % len
             label == Label(idx + 1, len, VizNames[idx + 1])
         IN  [idx |-> idx, start |-> now, params |-> randomize_params(r), overlay |-> label,
              calls |-> s.calls \o <<SetOverlay(label), Randomized>>]
    ELSE s

\* variant: the stored index is not reduced modulo len
ManualAdvance_nowrap(s, now, len, r) ==
    IF len > 0
    THEN LET idx == IF s.idx = USIZE_MAX THEN 0 ELSE s.idx + 1
             label == Label((idx % len) + 1, len, VizNames[(idx % len) + 1])
         IN  [idx |-> idx, start |-> now, params |-> randomize_params(r), overlay |-> label,
              calls |-> s.calls \o <<Randomized, SetOverlay(label)>>]
    ELSE s

\* variant: the segment start is not reset by a manual advance
ManualAdvance_keepstart(s, now, len, r) ==
    IF len > 0
    THEN LET idx == IF s.idx = USIZE_MAX THEN 0 ELSE (s.idx + 1) % len
             label == Label(idx + 1, len, VizNames[idx + 1])
         IN  [idx |-> idx, start |-> s.start, params |-> randomize_params(r), overlay |-> label,
              calls |-> s.calls \o <<Randomized, SetOverlay(label)>>]
    ELSE s

\* variant: the end of the new segment is stored instead of its start
ManualAdvance_deadline(s, now, len, r) ==
    IF len > 0
    THEN LET idx == IF s.idx = USIZE_MAX THEN 0 ELSE (s.idx + 1) % len
             label == Label(idx + 1, len, VizNames[idx + 1])
         IN  [idx |-> idx, start |-> now + DURATION_MS, params |-> randomize_params(r),
              overlay |-> label, calls |-> s.calls \o <<Randomized, SetOverlay(label)>>]
    ELSE s

\* variant: a key pressed before the first frame is ignored
ManualAdvance_after_init(s, now, len, r) ==
    IF len > 0 /\ s.idx # USIZE_MAX
    THEN LET idx == (s.idx + 1) % len
             label == Label(idx + 1, len, VizNames[idx + 1])
         IN  [idx |-> idx, start |-> now, params |-> randomize_params(r), overlay |-> label,
              calls |-> s.calls \o <<Randomized, SetOverlay(label)>>]
    ELSE s

\* keydown handler, the advance itself
ManualAdvance(s, now, len, r) ==
    IF len > 0
    THEN LET idx == IF s.idx = USIZE_MAX THEN 0 ELSE (s.idx + 1) % len
             label == Label(idx + 1, len, VizNames[idx + 1])
         IN  [idx |-> idx, start |-> now, params |-> randomize_params(r), overlay |-> label,
              calls |-> s.calls \o <<Randomized, SetOverlay(label)>>]
    ELSE s

\* variant: the code test negated
IsAdvanceKey_negated(key, code) == key = " " \/ code # "Space"

\* variant: TEXTAREA is not treated as a text input
IsTextTarget_input_only(target) ==
    /\ target.kind = "element"
    /\ (target.tag = "INPUT" \/ target.contenteditable)

\* variant: only the key is tested, not the code
IsAdvanceKey_key_only(key, code) == key = " "

\* keydown handler: is this the advance key, and is the target a text input
IsAdvanceKey(key, code) == key = " " \/ code = "Space"

IsTextTarget(target) ==
    /\ target.kind = "element"
    /\ (target.tag = "INPUT" \/ target.tag = "TEXTAREA" \/ target.contenteditable)

(***************************************************************************)
(* The coordinate pipeline of the shaders, in exact rational arithmetic.   *)
(* A number is a pair <<n, d>> in lowest terms with d > 0; a vec2 is a     *)
(* pair of numbers.  An angle is given by its cosine and sine.             *)
(***************************************************************************)
RECURSIVE GCD(_, _)
GCD(a, b) == IF b = 0 THEN a ELSE GCD(b, a % b)

Abs(x) == IF x < 0 THEN -x ELSE x

Q(n, d) ==
    LET g == GCD(Abs(n), Abs(d))
        sgn == IF d < 0 THEN -1 ELSE 1
    IN  <<(sgn * n) \div g, (sgn * d) \div g>>

QInt(n) == <<n, 1>>
QAdd(x, y) == Q(x[1] * y[2] + y[1] * x[2], x[2] * y[2])
QSub(x, y) == Q(x[1] * y[2] - y[1] * x[2], x[2] * y[2])
QMul(x, y) == Q(x[1] * y[1], x[2] * y[2])
QDiv(x, y) == Q(x[1] * y[2], x[2] * y[1])
QLe(x, y) == x[1] * y[2] <= y[1] * x[2]
QLt(x, y) == x[1] * y[2] < y[1] * x[2]
QMin(x, y) == IF QLe(x, y) THEN x ELSE y
QMax(x, y) == IF QLe(x, y) THEN y ELSE x
QClamp(x, lo, hi) == QMin(QMax(x, lo), hi)
QHalf == <<1, 2>>

\* the surface resolutions a fragment is evaluated for: the pixel sizes of Windows and
\* the two of tests/aspect.rs
Resolutions == { <<800, 600>>, <<902, 1202>>, <<1920, 1080>>, <<1080, 1920>> }

\* square-space coordinates of a fragment, one component: inside, on the edge of and
\* outside the centred square
SquareCoords == { <<-1, 5>>, <<0, 1>>, <<1, 5>>, <<1, 2>>, <<4, 5>>, <<1, 1>>, <<6, 5>> }

\* the displacement the post effects add, one component per axis
Displacements == { << <<0, 1>>, <<0, 1>> >>, << <<1, 10>>, <<-1, 10>> >> }

\* u_scale and u_rot: cosine and sine of the angle
Scales == { <<1, 1>>, <<3, 2>> }
Rotations == { [c |-> <<1, 1>>, s |-> <<0, 1>>],
               [c |-> <<3, 5>>, s |-> <<4, 5>>],
               [c |-> <<0, 1>>, s |-> <<-1, 1>>] }

\* vec2 a = vec2(min(res.x, res.y)) / res
aspect(res) ==
    LET m == IF res[1] <= res[2] THEN res[1] ELSE res[2]
    IN  << Q(m, res[1]), Q(m, res[2]) >>

\* composite fragment shader: is the fragment inside the centred square
in_square(uv) ==
    /\ ~QLt(uv[1], QInt(0)) /\ ~QLt(uv[2], QInt(0))
    /\ ~QLt(QInt(1), uv[1]) /\ ~QLt(QInt(1), uv[2])

\* composite fragment shader: suv_sq = clamp(uv_sq + disp, 0.0, 1.0)
displaced(uv_sq, disp) ==
    << QClamp(QAdd(uv_sq[1], disp[1]), QInt(0), QInt(1)),
       QClamp(QAdd(uv_sq[2], disp[2]), QInt(0), QInt(1)) >>

\* composite fragment shader: suv = (suv_sq - 0.5) / a + 0.5
uv_from_sq(uv_sq, res) ==
    LET a == aspect(res)
    IN  << QAdd(QDiv(QSub(uv_sq[1], QHalf), a[1]), QHalf),
           QAdd(QDiv(QSub(uv_sq[2], QHalf), a[2]), QHalf) >>

\* p = (uv*2.0 - 1.0) * a * u_scale
scaled(uv, res, scale) ==
    LET a == aspect(res)
    IN  << QMul(QMul(QSub(QMul(uv[1], QInt(2)), QInt(1)), a[1]), scale),
           QMul(QMul(QSub(QMul(uv[2], QInt(2)), QInt(1)), a[2]), scale) >>

\* variant: the aspect factor is left out
toP_no_aspect(uv, res, scale, rot) ==
    LET x == QMul(QSub(QMul(uv[1], QInt(2)), QInt(1)), scale)
        y == QMul(QSub(QMul(uv[2], QInt(2)), QInt(1)), scale)
    IN  << QAdd(QMul(rot.c, x), QMul(rot.s, y)),
           QSub(QMul(rot.c, y), QMul(rot.s, x)) >>

\* visualizer shaders: mat2(c,-s,s,c) * p, the matrix given by columns
toP(uv, res, scale, rot) ==
    LET p == scaled(uv, res, scale)
    IN  << QAdd(QMul(rot.c, p[1]), QMul(rot.s, p[2])),
           QSub(QMul(rot.c, p[2]), QMul(rot.s, p[1])) >>

\* tests/aspect.rs: rx = c*x - s*y, ry = s*x + c*y
to_p(uv, res, scale, rot) ==
    LET p == scaled(uv, res, scale)
    IN  << QSub(QMul(rot.c, p[1]), QMul(rot.s, p[2])),
           QAdd(QMul(rot.s, p[1]), QMul(rot.c, p[2])) >>

QZero2 == << <<0, 1>>, <<0, 1>> >>

\* no fragment is being evaluated
NoFrag ==
    [stage |-> "none", uv_sq |-> QZero2, disp |-> QZero2, res1 |-> <<1, 1>>, res2 |-> <<1, 1>>,
     scale |-> <<1, 1>>, rot |-> [c |-> <<1, 1>>, s |-> <<0, 1>>],
     suv_sq |-> QZero2, suv1 |-> QZero2, suv2 |-> QZero2,
     p1 |-> QZero2, p2 |-> QZero2, t1 |-> QZero2, t2 |-> QZero2]

\* the inputs of one fragment, for two surfaces
FragInputs ==
    { [NoFrag EXCEPT !.stage = "input", !.uv_sq = <<u, v>>, !.disp = d,
                     !.res1 = r1, !.res2 = r2, !.scale = sc, !.rot = rot] :
        u \in SquareCoords, v \in {<<1, 5>>, <<1, 2>>, <<1, 1>>}, d \in Displacements,
        r1 \in Resolutions, r2 \in Resolutions, sc \in Scales, rot \in Rotations }

(***************************************************************************)
(* Initial state: the page is loaded, start() has not been called          *)
(***************************************************************************)
Init ==
    /\ phase = "boot"
    /\ clock = 0
    /\ win \in Windows
    /\ canvas = <<300, 150>>
    /\ listeners = {}
    /\ post = [w |-> 0, h |-> 0]
    /\ gl = [fb |-> "default", viewport |-> <<300, 150>>,
             tex_scene |-> NewTex(0, 0), tex_mask |-> NewTex(0, 0)]
    /\ current_index = USIZE_MAX
    /\ segment_start_ms = 0
    /\ stripe_params = DefaultParams
    /\ overlay = ""
    /\ raf_pending = 0
    /\ trace = << >>
    /\ rotation = [first |-> -1, advances |-> 0]
    /\ frag = NoFrag

(***************************************************************************)
(* Actions                                                                 *)
(***************************************************************************)
Handler(name) == [op |-> name]

\* the host's clock advances (start() runs at the time origin); no handler runs
TickTo(max) ==
    /\ phase = "running"
    /\ clock + TickMs <= max
    /\ clock' = clock + TickMs
    /\ trace' = << >>
    /\ UNCHANGED <<phase, win, canvas, listeners, post, gl, sched_vars, raf_pending, rotation, frag>>

Tick == TickTo(MaxClock)

TickRotation == TickTo(MaxRotationClock)

TickLive == TickTo(MaxLiveClock)

\* the host's window takes another size or pixel ratio and no resize event has been
\* delivered yet (the values adjust_size reads are the host's, at the time of the call)
WindowChange(w) ==
    /\ phase = "running"
    /\ w # win
    /\ win' = w
    /\ trace' = << >>
    /\ UNCHANGED <<phase, clock, canvas, listeners, post, gl, sched_vars, raf_pending, rotation, frag>>

\* the init loop over viz_vec: the first k visualizers' init have been called
InitCalls(k) == [i \in 1 .. k |-> [op |-> "init", idx |-> i - 1]]

\* variant of start(): the listeners are registered before Post::new is called
Start_listeners_first(ctx_ok, viz_bad, post_ok) ==
    /\ phase = "boot"
    /\ IF ~ctx_ok
       THEN /\ phase' = "error"
            /\ trace' = << Handler("start") >>
            /\ UNCHANGED <<canvas, listeners, post, gl, segment_start_ms, raf_pending>>
       ELSE LET a == adjust_size(canvas, gl.viewport, win)
            IN  /\ canvas' = a.canvas
                /\ IF viz_bad # 0
                   THEN /\ phase' = "panic"
                        /\ gl' = [gl EXCEPT !.viewport = a.viewport]
                        /\ trace' = << Handler("start") >> \o a.calls \o InitCalls(viz_bad)
                        /\ UNCHANGED <<listeners, post, segment_start_ms, raf_pending>>
                   ELSE /\ segment_start_ms' = clock
                        /\ IF ~post_ok
                           THEN /\ phase' = "error"
                                /\ gl' = [gl EXCEPT !.viewport = a.viewport]
                                /\ trace' = << Handler("start") >> \o a.calls
                                              \o InitCalls(Len(VizNames))
                                /\ listeners' = {"resize", "keydown"}
                                /\ UNCHANGED <<post, raf_pending>>
                           ELSE /\ phase' = "running"
                                /\ post' = [w |-> a.canvas[1], h |-> a.canvas[2]]
                                /\ gl' = [fb |-> "default", viewport |-> a.viewport,
                                          tex_scene |-> NewTex(a.canvas[1], a.canvas[2]),
                                          tex_mask |-> NewTex(a.canvas[1], a.canvas[2])]
                                /\ listeners' = {"resize", "keydown"}
                                /\ raf_pending' = raf_pending + 1
                                /\ trace' = << Handler("start") >> \o a.calls
                                              \o InitCalls(Len(VizNames))
                                              \o << [op |-> "request_animation_frame"] >>
    /\ UNCHANGED <<clock, win, current_index, stripe_params, overlay, rotation, frag>>

\* start(canvas): ctx_ok = a WebGL2 context is obtained, viz_bad = the position in
\* viz_vec of the first visualizer whose programs do not compile and link (0: none),
\* post_ok = Post::new succeeds
Start(ctx_ok, viz_bad, post_ok) ==
    /\ phase = "boot"
    /\ IF ~ctx_ok
       THEN /\ phase' = "error"
            /\ trace' = << Handler("start") >>
            /\ UNCHANGED <<canvas, listeners, post, gl, segment_start_ms, raf_pending>>
       ELSE LET a == adjust_size(canvas, gl.viewport, win)
            IN  /\ canvas' = a.canvas
                /\ IF viz_bad # 0
                   THEN /\ phase' = "panic"
                        /\ gl' = [gl EXCEPT !.viewport = a.viewport]
                        /\ trace' = << Handler("start") >> \o a.calls \o InitCalls(viz_bad)
                        /\ UNCHANGED <<listeners, post, segment_start_ms, raf_pending>>
                   ELSE /\ segment_start_ms' = clock
                        /\ IF ~post_ok
                           THEN /\ phase' = "error"
                                /\ gl' = [gl EXCEPT !.viewport = a.viewport]
                                /\ trace' = << Handler("start") >> \o a.calls
                                              \o InitCalls(Len(VizNames))
                                /\ UNCHANGED <<listeners, post, raf_pending>>
                           ELSE /\ phase' = "running"
                                /\ post' = [w |-> a.canvas[1], h |-> a.canvas[2]]
                                /\ gl' = [fb |-> "default", viewport |-> a.viewport,
                                          tex_scene |-> NewTex(a.canvas[1], a.canvas[2]),
                                          tex_mask |-> NewTex(a.canvas[1], a.canvas[2])]
                                /\ listeners' = {"resize", "keydown"}
                                /\ raf_pending' = raf_pending + 1
                                /\ trace' = << Handler("start") >> \o a.calls
                                              \o InitCalls(Len(VizNames))
                                              \o << [op |-> "request_animation_frame"] >>
    /\ UNCHANGED <<clock, win, current_index, stripe_params, overlay, rotation, frag>>

\* the resize listener, the window being w when the event is delivered
Resize(w, scene_ok, mask_ok) ==
    /\ "resize" \in listeners
    /\ win' = w
    /\ LET a == adjust_size(canvas, gl.viewport, w)
           r == Post_resize(post, [gl EXCEPT !.viewport = a.viewport],
                            a.canvas[1], a.canvas[2], scene_ok, mask_ok)
       IN  /\ canvas' = a.canvas
           /\ post' = r.post
           /\ gl' = r.gl
           /\ trace' = << Handler("resize") >> \o a.calls \o r.calls
    /\ UNCHANGED <<phase, clock, listeners, sched_vars, raf_pending, rotation, frag>>

\* the keydown listener
Keydown(key, code, target) ==
    /\ "keydown" \in listeners
    /\ IF IsAdvanceKey(key, code)
       THEN IF IsTextTarget(target)
            THEN /\ trace' = << Handler("keydown"), [op |-> "prevent_default"] >>
                 /\ UNCHANGED sched_vars
            ELSE \E r \in RandStreams :
                 LET s == ManualAdvance(Sched, clock, Len(VizNames), r)
                 IN  /\ current_index' = s.idx
                     /\ segment_start_ms' = s.start
                     /\ stripe_params' = s.params
                     /\ overlay' = s.overlay
                     /\ trace' = << Handler("keydown"), [op |-> "prevent_default"] >> \o s.calls
       ELSE /\ trace' = << Handler("keydown") >>
            /\ UNCHANGED sched_vars
    /\ UNCHANGED <<phase, clock, listeners, surface_vars, raf_pending, rotation, frag>>

\* variant: the composite pass is issued before the two offscreen passes
RenderPasses_draw_first(p, g, res, idx_now, local_t, time, sp) ==
    LET g0 == Post_draw(p, g)
        g1 == begin_mask(p, g0)
        g2 == render(g1, "mask", idx_now, local_t, res)
        g3 == begin_scene(p, g2)
        g4 == render(g3, "color", idx_now, local_t, res)
    IN  [gl |-> g4,
         calls |-> << DrawCall(p, g, time, sp),
                      [op |-> "begin_mask", viewport |-> g1.viewport],
                      [op |-> "render_mask", idx |-> idx_now, t |-> local_t, fb |-> g1.fb],
                      [op |-> "begin_scene", viewport |-> g3.viewport],
                      [op |-> "render_color", idx |-> idx_now, t |-> local_t, fb |-> g3.fb] >>]

\* variant: the composite pass is given the segment-local time
RenderPasses_local_time(p, g, res, idx_now, local_t, time, sp) ==
    LET g1 == begin_mask(p, g)
        g2 == render(g1, "mask", idx_now, local_t, res)
        g3 == begin_scene(p, g2)
        g4 == render(g3, "color", idx_now, local_t, res)
        g5 == Post_draw(p, g4)
    IN  [gl |-> g5,
         calls |-> << [op |-> "begin_mask", viewport |-> g1.viewport],
                      [op |-> "render_mask", idx |-> idx_now, t |-> local_t, fb |-> g1.fb],
                      [op |-> "begin_scene", viewport |-> g3.viewport],
                      [op |-> "render_color", idx |-> idx_now, t |-> local_t, fb |-> g3.fb],
                      DrawCall(p, g4, local_t, sp) >>]

\* the passes of one frame: the GL state after them and the calls made
RenderPasses(p, g, res, idx_now, local_t, time, sp) ==
    LET g1 == begin_mask(p, g)
        g2 == render(g1, "mask", idx_now, local_t, res)
        g3 == begin_scene(p, g2)
        g4 == render(g3, "color", idx_now, local_t, res)
        g5 == Post_draw(p, g4)
    IN  [gl |-> g5,
         calls |-> << [op |-> "begin_mask", viewport |-> g1.viewport],
                      [op |-> "render_mask", idx |-> idx_now, t |-> local_t, fb |-> g1.fb],
                      [op |-> "begin_scene", viewport |-> g3.viewport],
                      [op |-> "render_color", idx |-> idx_now, t |-> local_t, fb |-> g3.fb],
                      DrawCall(p, g4, time, sp) >>]

\* variant of the animation-frame callback: the next frame is not requested
Frame_no_rearm(r1, r2) ==
    /\ phase = "running"
    /\ raf_pending > 0
    /\ LET now == clock
           len == Len(VizNames)
       IN  IF len = 0
           THEN /\ raf_pending' = raf_pending - 1
                /\ trace' = << Handler("frame") >>
                /\ UNCHANGED <<sched_vars, gl, rotation>>
           ELSE LET s1 == FirstFrameInit(Sched, now, len, r1)
                    s2 == TimeAdvance(s1, now, len, r2)
                    local_t == now - s2.start
                    idx_now == s2.idx
                    out == RenderPasses(post, gl, canvas, idx_now, local_t, now, s2.params)
                IN  /\ current_index' = s2.idx
                    /\ segment_start_ms' = s2.start
                    /\ stripe_params' = s2.params
                    /\ overlay' = s2.overlay
                    /\ gl' = out.gl
                    /\ raf_pending' = raf_pending - 1
                    /\ trace' = << Handler("frame") >> \o s2.calls \o out.calls
                    /\ rotation' = [first |-> IF rotation.first = -1 THEN now ELSE rotation.first,
                                    advances |-> IF Len(s2.calls) > Len(s1.calls)
                                                 THEN rotation.advances + 1
                                                 ELSE rotation.advances]
    /\ UNCHANGED <<phase, clock, win, canvas, listeners, post, frag>>

\* the animation-frame callback
Frame(r1, r2) ==
    /\ phase = "running"
    /\ raf_pending > 0
    /\ LET now == clock
           len == Len(VizNames)
       IN  IF len = 0
           THEN /\ raf_pending' = raf_pending - 1
                /\ trace' = << Handler("frame") >>
                /\ UNCHANGED <<sched_vars, gl, rotation>>
           ELSE LET s1 == FirstFrameInit(Sched, now, len, r1)
                    s2 == TimeAdvance(s1, now, len, r2)
                    local_t == now - s2.start
                    idx_now == s2.idx
                    out == RenderPasses(post, gl, canvas, idx_now, local_t, now, s2.params)
                IN  /\ current_index' = s2.idx
                    /\ segment_start_ms' = s2.start
                    /\ stripe_params' = s2.params
                    /\ overlay' = s2.overlay
                    /\ gl' = out.gl
                    /\ raf_pending' = raf_pending - 1 + 1
                    /\ trace' = << Handler("frame") >> \o s2.calls \o out.calls
                                  \o << [op |-> "request_animation_frame"] >>
                    /\ rotation' = [first |-> IF rotation.first = -1 THEN now ELSE rotation.first,
                                    advances |-> IF Len(s2.calls) > Len(s1.calls)
                                                 THEN rotation.advances + 1
                                                 ELSE rotation.advances]
    /\ UNCHANGED <<phase, clock, win, canvas, listeners, post, frag>>

(***************************************************************************)
(* Specifications                                                          *)
(***************************************************************************)
\* every handler; texImage2D never throws
Next ==
    \/ Tick
    \/ \E ctx_ok, post_ok \in BOOLEAN, viz_bad \in 0 .. Len(VizNames) :
          Start(ctx_ok, viz_bad, post_ok)
    \/ \E w \in Windows : Resize(w, TRUE, TRUE)
    \/ \E key \in Keys, code \in Codes, target \in Targets : Keydown(key, code, target)
    \/ \E r1, r2 \in RandStreams : Frame(r1, r2)

Spec == Init /\ [][Next]_vars

\* frames and resize events, a reallocation of either offscreen texture may fail
NextSurface ==
    \/ Tick
    \/ \E ctx_ok, post_ok \in BOOLEAN, viz_bad \in 0 .. Len(VizNames) :
          Start(ctx_ok, viz_bad, post_ok)
    \/ \E w \in Windows, scene_ok, mask_ok \in BOOLEAN : Resize(w, scene_ok, mask_ok)
    \/ \E r1, r2 \in RandStreams : Frame(r1, r2)

SpecSurface == Init /\ [][NextSurface]_vars

\* frames and resize events, the events being delivered with or after the change of
\* the window they report; texImage2D never throws
NextWindow ==
    \/ Tick
    \/ \E ctx_ok, post_ok \in BOOLEAN, viz_bad \in 0 .. Len(VizNames) :
          Start(ctx_ok, viz_bad, post_ok)
    \/ \E w \in Windows : WindowChange(w)
    \/ \E w \in Windows : Resize(w, TRUE, TRUE)
    \/ \E r1, r2 \in RandStreams : Frame(r1, r2)

SpecWindow == Init /\ [][NextWindow]_vars

\* frames only, the random source sampled more finely
NextParams ==
    \/ Tick
    \/ \E ctx_ok, post_ok \in BOOLEAN, viz_bad \in 0 .. Len(VizNames) :
          Start(ctx_ok, viz_bad, post_ok)
    \/ \E r1, r2 \in WideStreams : Frame(r1, r2)

SpecParams == Init /\ [][NextParams]_vars

\* every handler, under a host that eventually runs a requested animation frame
FrameStep == \E r1, r2 \in RandStreams : Frame(r1, r2)

\* the key events of the liveness specification: the advance key and another key, on
\* the page body and on an input field
LiveTargets == {t \in Targets : t.tag \in {"BODY", "INPUT"}}

NextLive ==
    \/ TickLive
    \/ \E ctx_ok, post_ok \in BOOLEAN, viz_bad \in 0 .. Len(VizNames) :
          Start(ctx_ok, viz_bad, post_ok)
    \/ \E w \in Windows : Resize(w, TRUE, TRUE)
    \/ \E key \in Keys, target \in LiveTargets : Keydown(key, "KeyA", target)
    \/ FrameStep

SpecLive == Init /\ [][NextLive]_vars /\ WF_vars(FrameStep)

\* frames only, over a longer time: no key is pressed, the window is not resized
NextRotation ==
    \/ TickRotation
    \/ \E ctx_ok, post_ok \in BOOLEAN, viz_bad \in 0 .. Len(VizNames) :
          Start(ctx_ok, viz_bad, post_ok)
    \/ \E r1, r2 \in RandStreams : Frame(r1, r2)

SpecRotation == Init /\ [][NextRotation]_vars

\* the composite pass evaluates one fragment for two surfaces: black bars outside the
\* centred square, otherwise the texture coordinate the scene and mask are sampled at
Composite ==
    /\ frag.stage = "input"
    /\ frag' = IF in_square(frag.uv_sq)
               THEN LET suv_sq == displaced(frag.uv_sq, frag.disp)
                    IN  [frag EXCEPT !.stage = "sampled",
                                     !.suv_sq = suv_sq,
                                     !.suv1 = uv_from_sq(suv_sq, frag.res1),
                                     !.suv2 = uv_from_sq(suv_sq, frag.res2)]
               ELSE [frag EXCEPT !.stage = "bars"]
    /\ UNCHANGED <<phase, clock, win, canvas, listeners, post, gl, sched_vars, raf_pending,
                   trace, rotation>>

\* the visualizer pass at the sampled texture coordinate: the pattern-space point, by
\* the shaders' toP and by the to_p of tests/aspect.rs
Project ==
    /\ frag.stage = "sampled"
    /\ frag' = [frag EXCEPT !.stage = "projected",
                            !.p1 = toP(frag.suv1, frag.res1, frag.scale, frag.rot),
                            !.p2 = toP(frag.suv2, frag.res2, frag.scale, frag.rot),
                            !.t1 = to_p(frag.suv1, frag.res1, frag.scale, frag.rot),
                            !.t2 = to_p(frag.suv2, frag.res2, frag.scale, frag.rot)]
    /\ UNCHANGED <<phase, clock, win, canvas, listeners, post, gl, sched_vars, raf_pending,
                   trace, rotation>>

\* the coordinate pipeline alone, over the fragment inputs
InitShader ==
    /\ phase = "boot"
    /\ clock = 0
    /\ win = [w |-> 800, h |-> 600, dpr2 |-> 2]
    /\ canvas = <<300, 150>>
    /\ listeners = {}
    /\ post = [w |-> 0, h |-> 0]
    /\ gl = [fb |-> "default", viewport |-> <<300, 150>>,
             tex_scene |-> NewTex(0, 0), tex_mask |-> NewTex(0, 0)]
    /\ current_index = USIZE_MAX
    /\ segment_start_ms = 0
    /\ stripe_params = DefaultParams
    /\ overlay = ""
    /\ raf_pending = 0
    /\ trace = << >>
    /\ rotation = [first |-> -1, advances |-> 0]
    /\ frag \in FragInputs

NextShader ==
    \/ Composite
    \/ Project

SpecShader == InitShader /\ [][NextShader]_vars

(***************************************************************************)
(* Properties                                                              *)
(***************************************************************************)
Count == Len(VizNames)

\* the most recent step was a run of the named handler
Ran(name) == trace # << >> /\ trace[1].op = name

\* the calls of the most recent handler with the given op
Calls(tr, op) == SelectSeq(tr, LAMBDA c : c.op = op)

\* time elapsed since the first frame callback
Elapsed == clock - rotation.first

\* C1 as stated: with no manual input, a frame evaluated once N x SEGMENT_DURATION has
\* elapsed since the first frame observes index N mod count, for every schedule of frames
C1_Original ==
    Ran("frame") => current_index = (Elapsed \div DURATION_MS) % Count

\* C1 amended: with no manual input, a frame evaluated at elapsed time e since the first
\* frame observes index k mod count, k being the number of time-based advances made so
\* far, 1 <= k <= e / SEGMENT_DURATION once e >= SEGMENT_DURATION; the index is
\* (e / SEGMENT_DURATION) mod count when every advance was made exactly SEGMENT_DURATION
\* after its segment began, and it is 1 in every frame with
\* SEGMENT_DURATION <= e < 2 x SEGMENT_DURATION
C1_Rotation ==
    Ran("frame") =>
        /\ current_index = rotation.advances % Count
        /\ rotation.advances <= Elapsed \div DURATION_MS
        /\ Elapsed >= DURATION_MS => rotation.advances >= 1
        /\ segment_start_ms - rotation.first = rotation.advances * DURATION_MS
              => current_index = (Elapsed \div DURATION_MS) % Count
        /\ Elapsed \div DURATION_MS = 1 => current_index = 1

\* six segments after the first frame, every advance on time: the index has wrapped to 1
C1_Witness ==
    /\ Ran("frame")
    /\ Elapsed = 6 * DURATION_MS
    /\ segment_start_ms - rotation.first = rotation.advances * DURATION_MS
    /\ current_index = 1

InRange(i) == i \in 0 .. Count - 1

\* the labels of the five visualizers, as they are displayed
Labels == <<"1/5 Pulsing Circle", "2/5 Rotating Square", "3/5 Twinkling Star",
            "4/5 Radiating Spokes", "5/5 Pulsing Plus">>

\* the parameter sets a re-randomization can produce
RandomizedParams == {randomize_params(r) : r \in RandStreams}

\* the most recent handler made a transition to index i at the current time: one
\* re-randomization, one label update for i
TransitionMade(tr, i, start, params, label) ==
    /\ InRange(i)
    /\ start = clock
    /\ Len(Calls(tr, "randomize_params")) = 1
    /\ params \in RandomizedParams
    /\ Calls(tr, "set_overlay_text") = << [op |-> "set_overlay_text", label |-> Labels[i + 1]] >>
    /\ label = Labels[i + 1]

\* the target of a key event is text-input-like
TextInputLike(target) ==
    /\ target.kind = "element"
    /\ (target.tag \in {"INPUT", "TEXTAREA"} \/ target.contenteditable)

C2_Inv ==
    /\ current_index = USIZE_MAX \/ InRange(current_index)
    /\ \A i \in 1 .. Len(trace) :
          trace[i].op \in {"render_mask", "render_color"} => InRange(trace[i].idx)

C2_Step == current_index # USIZE_MAX => current_index' # USIZE_MAX

\* C2: the active index is the sentinel or in [0, count); once it has left the sentinel
\* it never returns to it; every index used to select a visualizer for rendering is in
\* [0, count)
C2_IndexRange == []C2_Inv /\ [][C2_Step]_vars

\* the last visualizer is active and has been rendered
C2_Witness ==
    /\ Ran("frame")
    /\ current_index = Count - 1
    /\ \E i \in 1 .. Len(trace) : trace[i].op = "render_color" /\ trace[i].idx = Count - 1

\* C3: a frame evaluated in Active(index, segmentStart) with now - segmentStart >= 20000
\* moves to Active((index + 1) mod count, now), re-randomizes the parameters and updates
\* the label; with now - segmentStart < 20000 it leaves the scheduler as it is
C3_TimeBased ==
    [][ (Ran("frame")' /\ current_index # USIZE_MAX) =>
          IF clock - segment_start_ms >= DURATION_MS
          THEN /\ current_index' = (current_index + 1) % Count
               /\ TransitionMade(trace', current_index', segment_start_ms',
                                 stripe_params', overlay')
          ELSE /\ UNCHANGED sched_vars
               /\ Calls(trace', "randomize_params") = << >>
               /\ Calls(trace', "set_overlay_text") = << >> ]_vars

\* a frame has just made the time-based advance from visualizer 0 to visualizer 1
C3_Witness ==
    /\ Ran("frame")
    /\ current_index = 1
    /\ segment_start_ms = clock
    /\ Len(Calls(trace, "randomize_params")) = 1
    /\ overlay = "2/5 Rotating Square"

\* C4: an accepted advance-key event in Active(index, s) moves to
\* Active((index + 1) mod count, time of the event) whatever time has elapsed, with one
\* re-randomization and one label update
C4_ManualAdvance ==
    [][ Ran("keydown")' =>
        \A key \in Keys, code \in Codes, target \in Targets :
          ( /\ key = " " \/ code = "Space"
            /\ ~TextInputLike(target)
            /\ current_index # USIZE_MAX
            /\ Keydown(key, code, target) ) =>
              /\ current_index' = (current_index + 1) % Count
              /\ TransitionMade(trace', current_index', segment_start_ms',
                                stripe_params', overlay') ]_vars

\* a key has just advanced to visualizer 2, half a segment after the start
C4_Witness ==
    /\ Ran("keydown")
    /\ Len(Calls(trace, "randomize_params")) = 1
    /\ current_index = 2
    /\ clock = TickMs
    /\ segment_start_ms = clock

\* C5: the first frame evaluated while Uninitialized moves to Active(0, now),
\* re-randomizes once, sets the label "1/5 Pulsing Circle", and makes no time-based
\* advance in the same frame
C5_FirstFrame ==
    [][ (Ran("frame")' /\ current_index = USIZE_MAX) =>
          /\ current_index' = 0
          /\ TransitionMade(trace', 0, segment_start_ms', stripe_params', overlay')
          /\ overlay' = "1/5 Pulsing Circle"
          /\ rotation'.advances = rotation.advances ]_vars

\* the first frame came a whole segment after start() and consumed the sentinel
C5_Witness ==
    /\ Ran("frame")
    /\ current_index = 0
    /\ rotation = [first |-> clock, advances |-> 0]
    /\ clock = DURATION_MS
    /\ Len(Calls(trace, "randomize_params")) = 1

\* C6: a keydown whose key is not " " and whose code is not "Space" leaves the index,
\* the segment start, the pattern parameters and the label unchanged
C6_NoopKeys ==
    [][ Ran("keydown")' =>
        \A key \in Keys, code \in Codes, target \in Targets :
          (key # " " /\ code # "Space" /\ Keydown(key, code, target)) =>
              /\ UNCHANGED <<current_index, segment_start_ms, stripe_params, overlay>>
              /\ Calls(trace', "randomize_params") = << >>
              /\ Calls(trace', "set_overlay_text") = << >> ]_vars

\* the keydown handler has just run on another key while a visualizer is active
C6_Witness ==
    /\ trace = << Handler("keydown") >>
    /\ InRange(current_index)

\* C7: an advance-key event whose target is text-input-like makes no manual advance
C7_Suppressed ==
    [][ Ran("keydown")' =>
        \A key \in Keys, code \in Codes, target \in Targets :
          ( /\ key = " " \/ code = "Space"
            /\ TextInputLike(target)
            /\ Keydown(key, code, target) ) =>
              /\ UNCHANGED <<current_index, segment_start_ms, stripe_params, overlay>>
              /\ Calls(trace', "randomize_params") = << >>
              /\ Calls(trace', "set_overlay_text") = << >> ]_vars

\* the keydown handler has just run on a suppressed advance key
C7_Witness ==
    /\ trace = << Handler("keydown"), [op |-> "prevent_default"] >>
    /\ InRange(current_index)

PassOps == {"begin_mask", "render_mask", "begin_scene", "render_color", "draw"}

Passes(tr) == SelectSeq(tr, LAMBDA c : c.op \in PassOps)

\* C8: in every frame that renders, the passes are, in this order: bind+clear mask
\* target, render_mask, bind+clear scene target, render_color, composite draw; both
\* visualizer passes use the same index and the same local time, each draws into its
\* own target, and the composite samples what they drew
C8_PassOrder ==
    (Ran("frame") /\ Passes(trace) # << >>) =>
        LET ops == Passes(trace)
        IN  /\ [i \in 1 .. Len(ops) |-> ops[i].op] =
                  <<"begin_mask", "render_mask", "begin_scene", "render_color", "draw">>
            /\ ops[2].fb = "mask"
            /\ ops[4].fb = "scene"
            /\ ops[2].idx = current_index /\ ops[4].idx = current_index
            /\ ops[2].t = ops[4].t
            /\ ops[5].mask.content.pass = "mask"
            /\ ops[5].src.content.pass = "color"
            /\ gl.fb = "default"

\* a frame has rendered visualizer 1 at a local time other than 0
C8_Witness ==
    /\ Ran("frame")
    /\ \E i \in 1 .. Len(trace) :
          trace[i].op = "render_color" /\ trace[i].idx = 1 /\ trace[i].t = TickMs
    /\ \E i \in 1 .. Len(trace) : trace[i].op = "draw"

C10_ResizeIdempotent ==
    [][ Ran("resize")' =>
        \A w \in Windows, scene_ok, mask_ok \in BOOLEAN :
          Resize(w, scene_ok, mask_ok) =>
              /\ Len(Calls(trace', "set_canvas_size")) <= 1
              /\ Len(Calls(trace', "tex_image_2d")) <= 2
              /\ win = w => /\ UNCHANGED <<canvas, post, gl>>
                            /\ trace' = << Handler("resize") >> ]_vars

\* the resize handler has just run and done nothing, although a reallocation of the
\* previous resize had failed
C10_Witness ==
    /\ trace = << Handler("resize") >>
    /\ <<gl.tex_scene.w, gl.tex_scene.h>> # <<post.w, post.h>>

TexSize(tex) == <<tex.w, tex.h>>

\* C11: after initialization the scene texture, the mask texture and the compositor's
\* recorded (w, h) all have the physical canvas size in every state between callbacks,
\* and the passes of a frame all run at that one size
C11_TargetSize ==
    phase = "running" =>
        /\ TexSize(gl.tex_scene) = canvas
        /\ TexSize(gl.tex_mask) = canvas
        /\ <<post.w, post.h>> = canvas
        /\ (Ran("frame") /\ Passes(trace) # << >>) =>
              LET ops == Passes(trace)
              IN  /\ ops[1].viewport = canvas
                  /\ ops[3].viewport = canvas
                  /\ ops[5].res = canvas
                  /\ TexSize(ops[5].src) = canvas
                  /\ TexSize(ops[5].mask) = canvas

\* n is css * dpr rounded to the nearest integer, halves upwards (dpr = dpr2 / 2)
IsRound(n, css, dpr2) == 2 * n - 1 <= css * dpr2 /\ css * dpr2 < 2 * n + 1

SurfaceFits(cv, w) == IsRound(cv[1], w.w, w.dpr2) /\ IsRound(cv[2], w.h, w.dpr2)

\* C12 as stated: in every state after startup the canvas size is
\* round(logical window size x device pixel ratio) of the window as it is now
C12_Original == phase = "running" => SurfaceFits(canvas, win)

\* C12 amended: when start() or the resize handler has run, the canvas size is
\* round(logical size x pixel ratio) of the window as the handler read it, and the
\* handler wrote the canvas size (once) exactly when that differs from the size the
\* canvas had; after startup no other step changes the canvas size
C12_Surface ==
    [][ IF Ran("resize")' \/ (Ran("start")' /\ phase' = "running")
        THEN /\ SurfaceFits(canvas', win')
             /\ Len(Calls(trace', "set_canvas_size")) = (IF canvas' # canvas THEN 1 ELSE 0)
             /\ canvas' # canvas => gl'.viewport = canvas'
        ELSE Ran("start")' \/ canvas' = canvas ]_vars

\* the resize handler has just resized the canvas to a size that needed rounding up
\* from an exact half (601 x 1.5 = 901.5, 801 x 1.5 = 1201.5)
C12_Witness ==
    /\ Ran("resize")
    /\ Calls(trace, "set_canvas_size") # << >>
    /\ win = [w |-> 601, h |-> 801, dpr2 |-> 3]
    /\ canvas = <<902, 1202>>

\* lo <= x <= hi, all in millionths
Within(x, lo, hi) == lo <= x /\ x <= hi

JustRandomized == Calls(trace, "randomize_params") # << >>

\* C13 as stated: after every re-randomization every rotation speed is in
\* [0.05, 0.35] rad/s, every density in [6, 30], every drift component in [-0.2, 0.2]
C13_Original ==
    JustRandomized =>
        /\ Within(stripe_params.theta_speed, 50000, 350000)
        /\ Within(stripe_params.dot_theta_speed, 50000, 350000)
        /\ Within(stripe_params.density, 6000000, 30000000)
        /\ Within(stripe_params.dot_density, 6000000, 30000000)
        /\ \A d \in {stripe_params.drift_x, stripe_params.drift_y,
                     stripe_params.dot_drift_x, stripe_params.dot_drift_y} :
              Within(d, -200000, 200000)

\* C13 amended: after every re-randomization the stripe rotation speed is in
\* [0.05, 0.35] and the dot rotation speed in [0.02, 0.22] rad/s, the stripe density in
\* [8, 32] and the dot density in [6, 26], the stripe drift components in [-0.15, 0.15]
\* and the dot drift components in [-0.2, 0.2] units/s
C13_Bounds ==
    JustRandomized =>
        /\ Within(stripe_params.theta_speed, 50000, 350000)
        /\ Within(stripe_params.dot_theta_speed, 20000, 220000)
        /\ Within(stripe_params.density, 8000000, 32000000)
        /\ Within(stripe_params.dot_density, 6000000, 26000000)
        /\ Within(stripe_params.drift_x, -150000, 150000)
        /\ Within(stripe_params.drift_y, -150000, 150000)
        /\ Within(stripe_params.dot_drift_x, -200000, 200000)
        /\ Within(stripe_params.dot_drift_y, -200000, 200000)

\* a re-randomization has drawn a stripe density above 30
C13_Witness ==
    /\ JustRandomized
    /\ stripe_params.density > 30000000

\* C14: randomize_params is called once in a step that makes a segment transition
\* (the active index changes) and in no other step; a step without a transition, a
\* resize in particular, leaves every parameter field unchanged; the composite pass of
\* a frame uses the parameters in force after that frame's transition check
C14_RandomizeOnce ==
    [][ /\ Len(Calls(trace', "randomize_params")) =
              (IF current_index' # current_index THEN 1 ELSE 0)
        /\ current_index' = current_index => stripe_params' = stripe_params
        /\ Ran("resize")' => stripe_params' = stripe_params
        /\ (Ran("frame")' /\ Calls(trace', "draw") # << >>) =>
              Calls(trace', "draw")[1].sp = stripe_params' ]_vars

\* a frame without a transition has composited with the parameters drawn at an
\* earlier transition
C14_Witness ==
    /\ Ran("frame")
    /\ ~JustRandomized
    /\ stripe_params \in RandomizedParams
    /\ Calls(trace, "draw") # << >>
    /\ Calls(trace, "draw")[1].sp = stripe_params

C15_Inv == current_index # USIZE_MAX => overlay = Labels[current_index + 1]

C15_Step ==
    Calls(trace', "set_overlay_text") =
        (IF current_index' # current_index
         THEN << [op |-> "set_overlay_text", label |-> Labels[current_index' + 1]] >>
         ELSE << >>)

\* C15: a step that changes the active visualizer calls set_overlay_text once, with
\* "{index+1}/{count} {name}" of the new index, and no other step calls it; so after
\* the first transition the last label emitted is the one of the active index
C15_LabelConsistent == []C15_Inv /\ [][C15_Step]_vars

\* a key has just advanced to the fourth visualizer and its label was emitted
C15_Witness ==
    /\ Ran("keydown")
    /\ current_index = 3
    /\ Calls(trace, "set_overlay_text") # << >>
    /\ overlay = "4/5 Radiating Spokes"

\* the position in tr of the first call of one of the ops (0: none)
FirstCall(tr, ops) ==
    IF \E i \in 1 .. Len(tr) : tr[i].op \in ops
    THEN CHOOSE i \in 1 .. Len(tr) :
            tr[i].op \in ops /\ \A j \in 1 .. i - 1 : tr[j].op \notin ops
    ELSE 0

\* the position in tr of the last call of one of the ops (0: none)
LastCall(tr, ops) ==
    IF \E i \in 1 .. Len(tr) : tr[i].op \in ops
    THEN CHOOSE i \in 1 .. Len(tr) :
            tr[i].op \in ops /\ \A j \in i + 1 .. Len(tr) : tr[j].op \notin ops
    ELSE 0

\* C16: index, segment start, parameters and label change only together, in one
\* handler run that applies the whole transition; in a frame the transition's calls
\* all come before the first pass, and the passes read the index, the local time and
\* the parameters of the state the transition left
C16_Atomic ==
    [][ /\ sched_vars' # sched_vars =>
              /\ current_index' # current_index
              /\ TransitionMade(trace', current_index', segment_start_ms',
                                stripe_params', overlay')
        /\ (Ran("frame")' /\ Passes(trace') # << >>) =>
              LET ops == Passes(trace')
              IN  /\ LastCall(trace', {"set_overlay_text", "randomize_params"})
                        < FirstCall(trace', PassOps)
                  /\ \A i \in 1 .. Len(ops) :
                        /\ ops[i].op \in {"render_mask", "render_color"} =>
                              /\ ops[i].idx = current_index'
                              /\ ops[i].t = clock - segment_start_ms'
                        /\ ops[i].op = "draw" => ops[i].sp = stripe_params' ]_vars

\* a frame has made the time-based advance to visualizer 2 and rendered it at local
\* time 0 with the parameters drawn in that frame
C16_Witness ==
    /\ Ran("frame")
    /\ JustRandomized
    /\ current_index = 2
    /\ overlay = "3/5 Twinkling Star"
    /\ \E i \in 1 .. Len(trace) :
          trace[i].op = "render_mask" /\ trace[i].idx = 2 /\ trace[i].t = 0
    /\ Calls(trace, "draw")[1].sp = stripe_params

\* C17: the local time passed to render_mask and render_color is now - segmentStart
\* and is >= 0 in every frame; the segment start is never later than the clock
C17_LocalTime ==
    /\ phase = "running" => segment_start_ms <= clock
    /\ Ran("frame") =>
          \A i \in 1 .. Len(trace) :
             trace[i].op \in {"render_mask", "render_color"} =>
                /\ trace[i].t = clock - segment_start_ms
                /\ trace[i].t >= 0

\* a frame has rendered half a segment after a manual advance made after start()
C17_Witness ==
    /\ Ran("frame")
    /\ segment_start_ms = TickMs
    /\ \E i \in 1 .. Len(trace) : trace[i].op = "render_color" /\ trace[i].t = TickMs

C18_Inv ==
    /\ phase = "running" => raf_pending = 1
    /\ Ran("frame") =>
          /\ Len(Calls(trace, "request_animation_frame")) = 1
          /\ trace[Len(trace)].op = "request_animation_frame"
    /\ (Ran("keydown") \/ Ran("resize")) => Calls(trace, "request_animation_frame") = << >>

\* C18: after a successful start() one animation frame is requested at all times;
\* every frame callback ends by requesting exactly one next frame, key and resize
\* events leave the request alone, and under a host that eventually runs a requested
\* frame a frame callback follows every state of the running program
C18_Rearm == []C18_Inv /\ [](phase = "running" => <>Ran("frame"))

\* a frame callback has run, and re-armed, after the first one and after a manual
\* advance
C18_Witness ==
    /\ Ran("frame")
    /\ raf_pending = 1
    /\ rotation.first # clock
    /\ rotation.advances = 0
    /\ current_index = 1

C19_Step ==
    /\ phase # "error"
    /\ Ran("start")' =>
          \A ctx_ok, post_ok \in BOOLEAN, viz_bad \in 0 .. Count :
             ( /\ ~ctx_ok \/ (viz_bad = 0 /\ ~post_ok)
               /\ Start(ctx_ok, viz_bad, post_ok) ) =>
                  /\ phase' = "error"
                  /\ Calls(trace', "request_animation_frame") = << >>

\* C19: when the WebGL2 context cannot be obtained, or Post::new fails, start returns
\* an error: no animation frame is requested, no resize or keydown listener is
\* registered, and no handler ever runs afterwards
C19_Fatal ==
    /\ [](phase = "error" => listeners = {} /\ raf_pending = 0)
    /\ [][C19_Step]_vars

\* start() has returned an error from Post::new, after the canvas was sized and the
\* five visualizers were initialized
C19_Witness ==
    /\ phase = "error"
    /\ Ran("start")
    /\ Len(Calls(trace, "init")) = Count
    /\ Calls(trace, "set_canvas_size") # << >>

C20_Step ==
    Ran("start")' =>
        \A ctx_ok, post_ok \in BOOLEAN, viz_bad \in 1 .. Count :
           (ctx_ok /\ Start(ctx_ok, viz_bad, post_ok)) => phase' = "error"

C20_InitOnce ==
    (Ran("start") /\ phase = "running") =>
        [i \in 1 .. Len(Calls(trace, "init")) |-> Calls(trace, "init")[i].idx]
            = [i \in 1 .. Count |-> i - 1]

\* C20: a shader compile or link failure in a visualizer's init makes start return an
\* error value; init is called exactly once on each of the five visualizers, in
\* start(), before any frame renders
C20_InitError == []C20_InitOnce /\ [][C20_Step]_vars

\* the rotation of scale * (2 * uv_sq - 1), in the direction of the shaders' matrix
Rotated(uv_sq, scale, rot) ==
    LET x == QMul(QSub(QMul(uv_sq[1], QInt(2)), QInt(1)), scale)
        y == QMul(QSub(QMul(uv_sq[2], QInt(2)), QInt(1)), scale)
    IN  << QAdd(QMul(rot.c, x), QMul(rot.s, y)),
           QSub(QMul(rot.c, y), QMul(rot.s, x)) >>

\* the same, in the direction of tests/aspect.rs
RotatedBack(uv_sq, scale, rot) == Rotated(uv_sq, scale, [c |-> rot.c, s |-> QSub(QInt(0), rot.s)])

\* C21: the pattern-space point of a square-space point, computed through the
\* composite pass's texture coordinate and the visualizer's toP, is the same for the
\* two surface resolutions and equals the rotation of scale * (2 * uv_sq - 1)
C21_AspectInvariant ==
    frag.stage = "projected" =>
        /\ frag.p1 = frag.p2
        /\ frag.t1 = frag.t2
        /\ frag.p1 = Rotated(frag.suv_sq, frag.scale, frag.rot)
        /\ frag.t1 = RotatedBack(frag.suv_sq, frag.scale, frag.rot)

\* a point off the centre has been projected for a wide and a tall surface, scaled and
\* rotated
C21_Witness ==
    /\ frag.stage = "projected"
    /\ frag.res1 = <<1920, 1080>>
    /\ frag.res2 = <<902, 1202>>
    /\ frag.suv_sq = << <<3, 10>>, <<2, 5>> >>
    /\ frag.scale = <<3, 2>>
    /\ frag.rot.s = <<4, 5>>
    /\ frag.p1 = << <<-3, 5>>, <<3, 10>> >>

\* is x in the interval [lo, hi]
QWithin(x, lo, hi) == QLe(lo, x) /\ QLe(x, hi)

\* is the texture coordinate inside the centred inscribed square of a res texture
InBand(suv, res) ==
    LET a == aspect(res)
    IN  \A i \in 1 .. 2 :
           QWithin(suv[i], QSub(QHalf, QMul(a[i], QHalf)), QAdd(QHalf, QMul(a[i], QHalf)))

\* C23: the texture coordinate the scene and mask are sampled at lies inside the
\* centred inscribed square band of the texture, and so inside [0,1]^2, for every
\* resolution and every square-space coordinate
C23_InBand ==
    frag.stage \in {"sampled", "projected"} =>
        /\ InBand(frag.suv1, frag.res1)
        /\ \A i \in 1 .. 2 : QWithin(frag.suv1[i], QInt(0), QInt(1))

\* the local times given to the visualizer passes by the most recent handler
LocalTimes(tr) ==
    {tr[i].t : i \in {j \in 1 .. Len(tr) : tr[j].op \in {"render_mask", "render_color"}}}

\* the global times given to the composite pass by the most recent handler
GlobalTimes(tr) == {tr[i].time : i \in {j \in 1 .. Len(tr) : tr[j].op = "draw"}}

C22_Inv ==
    Ran("frame") =>
        /\ GlobalTimes(trace) = {clock}
        /\ LocalTimes(trace) = {clock - segment_start_ms}

\* C22: in every frame the composite pass receives the global time now (never reset by
\* a transition) and the visualizer passes the segment-local time; the clock, and so
\* the global time of consecutive frames, never decreases
C22_TimeSources == []C22_Inv /\ [][clock' >= clock]_vars

\* a frame has made a transition a segment after the time origin: local time 0,
\* global time 20 s
C22_Witness ==
    /\ Ran("frame")
    /\ JustRandomized
    /\ LocalTimes(trace) = {0}
    /\ GlobalTimes(trace) = {DURATION_MS}

C24_Step ==
    /\ (Ran("keydown")' /\ current_index = USIZE_MAX /\ JustRandomized') =>
          /\ current_index' = 0
          /\ TransitionMade(trace', 0, segment_start_ms', stripe_params', overlay')
    /\ (Ran("frame")' /\ rotation.first = -1 /\ current_index # USIZE_MAX) =>
          IF clock - segment_start_ms >= DURATION_MS
          THEN current_index' = (current_index + 1) % Count
          ELSE /\ UNCHANGED sched_vars
               /\ Calls(trace', "randomize_params") = << >>
               /\ Calls(trace', "set_overlay_text") = << >>

\* C24: an accepted advance key pressed while the scheduler is Uninitialized moves it
\* to Active(0, event time) with one re-randomization and the label of visualizer 0;
\* the first frame after it does not initialize again: it changes the scheduler only
\* if the 20 s budget has passed since the key
C24_KeyBeforeFirstFrame ==
    /\ [][C24_Step]_vars
    /\ [][\A key \in Keys, code \in Codes, target \in Targets :
             ( /\ Ran("keydown")'
               /\ current_index = USIZE_MAX
               /\ key = " " \/ code = "Space"
               /\ ~TextInputLike(target)
               /\ Keydown(key, code, target) ) => JustRandomized']_vars

\* the first frame has run after a manual advance from Uninitialized and made no
\* transition
C24_Witness ==
    /\ Ran("frame")
    /\ rotation = [first |-> clock, advances |-> 0]
    /\ ~JustRandomized
    /\ current_index = 0
    /\ overlay = "1/5 Pulsing Circle"

\* C25: one frame callback advances the index by at most one step and calls
\* randomize_params and set_overlay_text at most once each, however much time has
\* passed since the segment started
C25_OnePerFrame ==
    [][ Ran("frame")' =>
          /\ Len(Calls(trace', "randomize_params")) <= 1
          /\ Len(Calls(trace', "set_overlay_text")) <= 1
          /\ \/ current_index' = current_index
             \/ current_index = USIZE_MAX /\ current_index' = 0
             \/ current_index # USIZE_MAX /\ current_index' = (current_index + 1) % Count
          /\ rotation'.advances <= rotation.advances + 1 ]_vars

\* a frame that came three segment durations after the previous one has advanced from
\* visualizer 0 to visualizer 1 only
C25_Witness ==
    /\ Ran("frame")
    /\ JustRandomized
    /\ rotation = [first |-> 0, advances |-> 1]
    /\ clock = 3 * DURATION_MS
    /\ current_index = 1

\* C26: the local time given to the visualizer passes is always less than the segment
\* duration, and it is 0 in a frame that makes a first-frame or time-based transition
C26_LocalTimeBound ==
    Ran("frame") =>
        /\ \A t \in LocalTimes(trace) : t < DURATION_MS
        /\ JustRandomized => LocalTimes(trace) = {0}

\* a frame has rendered half a segment into a segment that began with a time-based
\* advance
C26_Witness ==
    /\ Ran("frame")
    /\ rotation.advances = 1
    /\ ~JustRandomized
    /\ LocalTimes(trace) = {TickMs}

\* C27: a time-based transition is made only by a frame at least 20000 ms after the
\* start of the segment, which is the time of the last transition; an accepted manual
\* advance is the only other way a segment ends, and it starts a segment with the
\* full budget
C27_MinSegment ==
    [][ /\ rotation'.advances # rotation.advances =>
              /\ current_index # USIZE_MAX
              /\ clock - segment_start_ms >= DURATION_MS
        /\ current_index' # current_index =>
              /\ segment_start_ms' = clock
              /\ Ran("frame")' \/ Ran("keydown")'
        /\ (current_index' = current_index /\ phase = "running") =>
              segment_start_ms' = segment_start_ms ]_vars

\* a frame has made a time-based advance a full budget after a manual advance that
\* had cut the previous segment short
C27_Witness ==
    /\ Ran("frame")
    /\ JustRandomized
    /\ rotation = [first |-> 0, advances |-> 1]
    /\ clock = 3 * TickMs
    /\ current_index = 2

\* C28: the keydown handler calls prevent_default on every event whose key is " " or
\* whose code is "Space", text-input targets included, and on no other event
C28_PreventDefault ==
    [][ Ran("keydown")' =>
        \A key \in Keys, code \in Codes, target \in Targets :
           \/ Len(Calls(trace', "prevent_default")) =
                 (IF key = " " \/ code = "Space" THEN 1 ELSE 0)
           \/ ~Keydown(key, code, target) ]_vars

\* prevent_default was called for an event the advance was suppressed for, before the
\* first transition
C28_Witness ==
    /\ Ran("keydown")
    /\ Calls(trace, "prevent_default") # << >>
    /\ ~JustRandomized
    /\ current_index = USIZE_MAX

\* C29: at most one animation-frame request is pending at any time: start() issues
\* one, each frame callback serves one and issues one, the keydown and resize
\* handlers issue none
C29_OnePending ==
    /\ [](raf_pending \in {0, 1})
    /\ [][ LET n == Len(Calls(trace', "request_animation_frame"))
           IN  /\ raf_pending' = raf_pending + n - (IF Ran("frame")' THEN 1 ELSE 0)
               /\ Ran("frame")' => raf_pending = 1 /\ n = 1
               /\ (Ran("start")' /\ phase' = "running") => n = 1
               /\ (Ran("keydown")' \/ Ran("resize")') => n = 0 ]_vars

\* a resize has been handled between two frames and one request is pending
C29_Witness ==
    /\ Ran("resize")
    /\ Calls(trace, "tex_image_2d") # << >>
    /\ rotation.first # -1
    /\ raf_pending = 1

\* C30: the resize handler leaves the recorded size at the requested size whether or
\* not the reallocations succeed; a failed scene reallocation leaves both textures as
\* they were, a failed mask reallocation leaves the mask texture as it was; a resize
\* to the recorded size reallocates nothing
C30_ResizeFailure ==
    [][ Ran("resize")' =>
        \A w \in Windows, scene_ok, mask_ok \in BOOLEAN :
           Resize(w, scene_ok, mask_ok) =>
              /\ <<post'.w, post'.h>> = canvas'
              /\ SurfaceFits(canvas', w)
              /\ IF <<post.w, post.h>> = canvas'
                 THEN /\ Calls(trace', "tex_image_2d") = << >>
                      /\ gl'.tex_scene = gl.tex_scene /\ gl'.tex_mask = gl.tex_mask
                 ELSE /\ TexSize(gl'.tex_scene) =
                            (IF scene_ok THEN canvas' ELSE TexSize(gl.tex_scene))
                      /\ TexSize(gl'.tex_mask) =
                            (IF scene_ok /\ mask_ok THEN canvas' ELSE TexSize(gl.tex_mask))
                      /\ Len(Calls(trace', "tex_image_2d")) = (IF scene_ok THEN 2 ELSE 1) ]_vars

\* after a failed mask reallocation a later resize event for the same size has
\* reallocated nothing: the two textures have different sizes
C30_Witness ==
    /\ trace = << Handler("resize") >>
    /\ TexSize(gl.tex_scene) = <<post.w, post.h>>
    /\ TexSize(gl.tex_mask) # <<post.w, post.h>>

====
